---- MODULE Spec2Model ----
(***************************************************************************)
(* Model of the agent_no_framework repository: the executor loop           *)
(* (BaseAgent.run / agent_step), the planner (PlannerAgent.plan) and the   *)
(* orchestrator (run_orchestration), in the three variants found in the    *)
(* sources: "orchestration" (src/agent_orchestration), "scratchpad"        *)
(* (src/agent_scratchpad) and "raw" (src/raw_agent).                       *)
(*                                                                         *)
(* Text that the code inspects character by character (user input, reply   *)
(* content) is a sequence of one-character strings.  Other texts are       *)
(* tuples of tokens: an f-string "Error: unknown tool 'x'." is the tuple   *)
(* <<"Error: unknown tool", "x">>.                                          *)
(***************************************************************************)
EXTENDS Integers, Sequences, FiniteSets, TLC

VARIABLES
    variant,          \* which source variant runs
    pc,               \* position of the driver (run_orchestration, or a direct call)
    user_input,       \* the request given to run_orchestration / plan
    plan_obj,         \* the object returned by PlannerAgent.plan
    step_i,           \* index of the plan step the for loop is at
    agent_input,      \* input of the step being run
    outputs,          \* dict agent name -> result, in insertion order
    warnings,         \* "Unknown agent ..., skipping." warnings logged
    retried,          \* the except TypeError branch of the current step was taken
    agent,            \* the agent instance whose run is in progress
    memory,           \* that agent's Memory.history
    rpc,              \* position inside run / agent_step
    loops,            \* local variable loops
    max_tool_loops,   \* parameter max_tool_loops
    message,          \* local variable message (last model reply)
    tc_i,             \* index of the tool call the for loop is at
    result,           \* value returned by run
    exception,        \* exception propagating out of run, NoException when none
    gateway_calls,    \* chat_completion calls made by the current run
    invoked,          \* tool functions actually called by the current run
    execution_log,    \* agent.execution_log (scratchpad variant)
    step_calls,       \* the plan steps a gateway call or tool invocation was made for
    synth_calls,      \* number of synthesize() calls
    plan_log,         \* record of the plan() calls made so far
    payload,          \* body of the last request chat_completion posted
    scratchpad,       \* agent.scratchpad.thoughts (scratchpad variant)
    agent_logs,       \* agent_logs of run_orchestration (scratchpad variant)
    mermaid           \* what render_mermaid_trace drew for the trace

vars == <<variant, pc, user_input, plan_obj, step_i, agent_input, outputs,
          warnings, retried, agent, memory, rpc, loops, max_tool_loops,
          message, tc_i, result, exception, gateway_calls, invoked,
          execution_log, step_calls, synth_calls, plan_log, payload,
          scratchpad, agent_logs, mermaid>>

orch_vars == <<user_input, plan_obj, step_i, outputs, warnings,
               retried, step_calls, synth_calls, plan_log>>

trace_vars == <<agent_logs, mermaid>>

Variants == {"orchestration", "scratchpad", "raw"}

(***************************************************************************)
(* Bounds of the model.                                                    *)
(***************************************************************************)
\* largest max_tool_loops passed to a direct call of run / agent_step
MaxLoopsBound == 2
\* cap on the loop counter (never reached by the code: the loop stops first)
LoopCap == 4
\* largest magnitude of the numbers passed to the arithmetic tools
MaxNum == 2
\* longest channel on which one more run or construction is started
MaxChannelLen == 3
\* number of plan() calls made on one planner instance when it is driven directly
MaxPlanCalls == 2

\* default of the max_tool_loops parameter
DefaultMaxToolLoops == 3

(***************************************************************************)
(* Texts.                                                                  *)
(***************************************************************************)
UPPER == <<"A","B","C","D","E","F","G","H","I","J","K","L","M",
           "N","O","P","Q","R","S","T","U","V","W","X","Y","Z">>
LOWER == <<"a","b","c","d","e","f","g","h","i","j","k","l","m",
           "n","o","p","q","r","s","t","u","v","w","x","y","z">>

\* str.lower() on one character
LowerChar(c) ==
    IF \E i \in 1..Len(UPPER) : UPPER[i] = c
    THEN LOWER[CHOOSE i \in 1..Len(UPPER) : UPPER[i] = c]
    ELSE c

\* str.lower()
Lower(s) == [i \in 1..Len(s) |-> LowerChar(s[i])]

\* the Python test  k in s  on strings
Contains(s, k) ==
    \E i \in 1..(Len(s) - Len(k) + 1) : SubSeq(s, i, i + Len(k) - 1) = k

RECURSIVE StripLeft(_)
StripLeft(s) == IF s # <<>> /\ Head(s) = " " THEN StripLeft(Tail(s)) ELSE s

RECURSIVE StripRight(_)
StripRight(s) ==
    IF s # <<>> /\ s[Len(s)] = " " THEN StripRight(SubSeq(s, 1, Len(s) - 1)) ELSE s

\* str.strip()
Strip(s) == StripRight(StripLeft(s))

\* Python None where a text is expected
NoneVal == <<"None">>

\* the request texts given to the program
UserInputs ==
    << <<"W","e","a","t","h","e","r"," ","i","n","f","o">>,
       <<"h","i">>,
       <<"a","d","d"," ","N","e","w","s">>,
       <<"W","h","a","t","'","s"," ","t","h","e"," ","w","e","a","t","h","e","r"," ",
         "i","n"," ","H","a","n","o","i","?">> >>

\* the reply contents of the model backend ("" , " " and "ok")
ReplyContents == << <<>>, <<" ">>, <<"o","k">> >>

(***************************************************************************)
(* Memory (the conversation channel).                                      *)
(***************************************************************************)
Turn(role, content, tool_calls, tool_call_id, name) ==
    [role |-> role, content |-> content, tool_calls |-> tool_calls,
     tool_call_id |-> tool_call_id, name |-> name]

\* mutation: the turn is appended twice
MemoryAdd_Twice(history, role, content) ==
    Append(Append(history, Turn(role, content, <<>>, <<>>, "")),
           Turn(role, content, <<>>, <<>>, ""))

\* Memory.add(role, content)
MemoryAdd(history, role, content) ==
    Append(history, Turn(role, content, <<>>, <<>>, ""))

\* mutation: the tool_calls turn takes the place of the last turn
MemoryAddAssistantToolCalls_Overwrites(history, tool_calls) ==
    [history EXCEPT ![Len(history)] = Turn("assistant", NoneVal, tool_calls, <<>>, "")]

\* Memory.add_assistant_tool_calls(tool_calls)
MemoryAddAssistantToolCalls(history, tool_calls) ==
    Append(history, Turn("assistant", NoneVal, tool_calls, <<>>, ""))

\* mutation: the unknown-tool branch skips the append
MemoryAddToolResult_SkipUnknown(history, tool_call_id, name, res) ==
    IF res[1] = "Error: unknown tool" THEN history
    ELSE Append(history, Turn("tool", res, <<>>, tool_call_id, name))

\* Memory.add_tool_result(tool_call_id, name, result)
MemoryAddToolResult(history, tool_call_id, name, res) ==
    Append(history, Turn("tool", res, <<>>, tool_call_id, name))

\* Memory.__init__(system_prompt)
MemoryInit(system_prompt) ==
    IF system_prompt # <<>> THEN MemoryAdd(<<>>, "system", system_prompt) ELSE <<>>

(***************************************************************************)
(* Tools.                                                                  *)
(***************************************************************************)
\* TOOL_FUNCS
TOOL_FUNCS(v) ==
    IF v = "scratchpad"
    THEN {"get_top_headlines", "search_news_articles", "get_news_source_info",
          "add_numbers", "subtract_numbers", "multiply_numbers",
          "divide_numbers", "fetch_webpage_summary"}
    ELSE {"get_weather", "search_location_info"}

\* the tools whose signature has no parameter
NoParameterTools == {"get_top_headlines"}

\* the tools that do arithmetic on their arguments outside any try block
ArithmeticTools == {"add_numbers", "subtract_numbers", "multiply_numbers", "divide_numbers"}

(* A JSON value passed to an arithmetic tool: t is its Python type ("int",   *)
(* "float" or "str") and n the number it denotes (the float n.0, the str     *)
(* "n").                                                                     *)
Value(t, n) == [t |-> t, n |-> n]

\* the values given as dividend and as divisor
Dividends == {Value("int", n) : n \in -MaxNum..MaxNum} \cup {Value("str", 0)}
Divisors ==
    {Value("int", 0), Value("float", 0), Value("str", 0)}
    \cup {Value("int", n) : n \in 1..MaxNum}

\* the JSON text of a value, and of the arguments {"a": a, "b": b}
ValueText(x) ==
    IF x.t = "str" THEN "'" \o ToString(x.n) \o "'"
    ELSE IF x.t = "float" THEN ToString(x.n) \o ".0"
    ELSE ToString(x.n)

ArgumentsText(a, b) == "{a: " \o ValueText(a) \o ", b: " \o ValueText(b) \o "}"

ArithmeticArgs == {ArgumentsText(a, b) : a \in Dividends, b \in Divisors}

\* json.loads of such a text: the values under "a" and "b"
LoadArgs(text) ==
    CHOOSE p \in Dividends \X Divisors : ArgumentsText(p[1], p[2]) = text

\* the Python test  x == 0
EqualsZero(x) == x.t \in {"int", "float"} /\ x.n = 0

CannotDivide ==
    <<"E","r","r","o","r",":"," ","C","a","n","n","o","t"," ",
      "d","i","v","i","d","e"," ","b","y"," ","z","e","r","o">>

\* mutation: the divisor is not tested
divide_numbers_NoTest(a, b) ==
    IF a.t = "str" \/ b.t = "str"
    THEN [outcome |-> "TypeError", text |-> <<>>]
    ELSE IF b.n = 0 THEN [outcome |-> "ZeroDivisionError", text |-> <<>>]
    ELSE [outcome |-> "returns",
          text |-> <<ValueText(a), " divided by ", ValueText(b), " equals ", "a/b">>]

(* divide_numbers(a, b): the outcome ("returns" or the exception raised) and *)
(* the string returned.  The quotient itself is left symbolic.               *)
divide_numbers(a, b) ==
    IF EqualsZero(b)
    THEN [outcome |-> "returns", text |-> CannotDivide]
    ELSE IF a.t = "str" \/ b.t = "str"
    THEN [outcome |-> "TypeError", text |-> <<>>]
    ELSE [outcome |-> "returns",
          text |-> <<ValueText(a), " divided by ", ValueText(b), " equals ", "a/b">>]

(* What calling TOOL_FUNCS[fn] with args does.  args is the decoded argument *)
(* mapping: "empty" ({}), "valid" (the declared keys with values of the      *)
(* declared types) or "badvalue" (the declared keys, a value of another      *)
(* type, such as {"location": 5}).  The outcome is "returns" or the name of  *)
(* the exception that leaves the tool function.                              *)
InvokeOutcome(fn, args) ==
    IF fn = "divide_numbers" /\ args \in ArithmeticArgs
    THEN divide_numbers(LoadArgs(args)[1], LoadArgs(args)[2]).outcome
    ELSE IF fn \in NoParameterTools
    THEN IF args = "badvalue" THEN "TypeError" ELSE "returns"
    ELSE IF args = "empty" THEN "TypeError"
    ELSE IF args = "valid" THEN "returns"
    ELSE IF fn \in ArithmeticTools THEN "TypeError"
    ELSE IF fn = "search_location_info" THEN "AttributeError"
    ELSE "returns"

\* mutation: the except clause names ValueError instead of TypeError
CaughtExceptions_ValueError(v) ==
    IF v = "raw" THEN {"ValueError"} ELSE {"ValueError", "AttributeError"}

\* the exceptions the except clauses around the tool call catch
CaughtExceptions(v) ==
    IF v = "raw" THEN {"TypeError"}
    ELSE {"TypeError", "AttributeError", "ZeroDivisionError"}

\* the result string built by an except clause
ErrorResult(v, fn, exc) ==
    IF exc = "TypeError"
    THEN IF v = "raw" THEN <<"Error when invoking", fn>> ELSE <<"Error invoking", fn>>
    ELSE <<"Tool failed", fn>>

\* the result string of the unknown-tool branch
UnknownToolResult(fn) == <<"Error: unknown tool", fn>>

\* the string a tool function returns
ToolReturn(fn, args) ==
    IF fn = "divide_numbers" /\ args \in ArithmeticArgs
    THEN divide_numbers(LoadArgs(args)[1], LoadArgs(args)[2]).text
    ELSE <<"result of", fn, args>>

\* the test  fn not in TOOL_FUNCS
UnknownTool(v, fn) == fn \notin TOOL_FUNCS(v)

(* raw_arguments of a tool call: [py |-> the Python type that arrived,      *)
(* body |-> what it holds].  A str body is "" (blank), "not json", or the    *)
(* JSON text of a "valid" or "badvalue" mapping.                             *)
RawArgs(py, body) == [py |-> py, body |-> body]

\* json.loads succeeds on the text
Decodable(body) == body \in {"valid", "badvalue"} \/ body \in ArithmeticArgs

\* the parsing of raw_args into args
DecodeArgs(raw) ==
    IF raw.py = "str"
    THEN IF raw.body = "" THEN "empty"
         ELSE IF Decodable(raw.body) THEN raw.body
         ELSE "empty"
    ELSE IF raw.py = "dict" THEN raw.body
    ELSE "empty"

\* tc.get("id") or f"call_{uuid4}": an id is a tuple of strings, <<>> when the
\* server attached none; the synthesized one is fresh in the channel
CallId(tc, history) ==
    IF tc.id # <<>> THEN tc.id ELSE <<"call_", ToString(Len(history))>>

(***************************************************************************)
(* Agents.                                                                 *)
(***************************************************************************)
\* AGENT_REGISTRY: the names it maps
AGENT_REGISTRY(v) ==
    IF v = "scratchpad"
    THEN {"PlannerAgent", "NewsAgent", "MathAgent", "SynthesizerAgent"}
    ELSE {"PlannerAgent", "WeatherAgent", "LocationAgent", "SynthesizerAgent"}

\* plan_catalog of run_orchestration, in order
PlanCatalog(v) ==
    IF v = "scratchpad" THEN <<"NewsAgent", "MathAgent">>
    ELSE <<"WeatherAgent", "LocationAgent">>

\* the my_tool_specs each agent class sets in its __init__
MyToolSpecs(name) ==
    CASE name = "WeatherAgent" -> {"get_weather"}
      [] name = "LocationAgent" -> {"search_location_info"}
      [] name = "NewsAgent" -> {"get_top_headlines", "search_news_articles",
                                "get_news_source_info", "fetch_webpage_summary"}
      [] name = "MathAgent" -> {"add_numbers", "subtract_numbers",
                                "multiply_numbers", "divide_numbers"}
      [] name = "agent_step" -> {"get_weather", "search_location_info"}
      [] OTHER -> {}

\* the system prompt of an agent (never empty)
SystemPrompt(name) == <<"You are", name>>

\* the fields BaseAgent.__init__ sets; "agent_step" stands for the raw variant,
\* which has no agent class and always advertises its tools
NewAgent(name) ==
    [name |-> name,
     tools_enabled |-> name \notin {"PlannerAgent", "SynthesizerAgent"},
     my_tool_specs |-> MyToolSpecs(name)]

NoAgent == [name |-> "", tools_enabled |-> FALSE, my_tool_specs |-> {}]

\* the agents a direct call of run / agent_step is made on
DirectAgents(v) ==
    IF v = "raw" THEN {"agent_step"}
    ELSE {PlanCatalog(v)[1], PlanCatalog(v)[2]}

(***************************************************************************)
(* The model backend: the replies chat_completion can return.              *)
(***************************************************************************)
ToolCall(id, name, py, body) ==
    [id |-> id, name |-> name, arguments |-> RawArgs(py, body)]

Reply(content, tool_calls) == [content |-> content, tool_calls |-> tool_calls]

NoMessage == Reply(<<>>, <<>>)

\* two tools of the variant's registry, and a name that is in no registry
FirstTool(v) == IF v = "scratchpad" THEN "get_top_headlines" ELSE "get_weather"
SecondTool(v) == IF v = "scratchpad" THEN "divide_numbers" ELSE "search_location_info"
AbsentTool == "no_such_tool"

ServerId1 == <<"c1">>
ServerId2 == <<"c2">>

\* the tool_calls lists a reply carries when run / agent_step is called directly
DirectToolCallLists(v) ==
    { <<ToolCall(ServerId1, FirstTool(v), "str", "valid")>>,
      <<ToolCall(ServerId1, FirstTool(v), "str", "not json")>>,
      <<ToolCall(ServerId1, SecondTool(v), "str", "badvalue")>>,
      <<ToolCall(<<>>, SecondTool(v), "str", "not json")>>,
      <<ToolCall(ServerId1, SecondTool(v), "str", "")>>,
      <<ToolCall(ServerId1, AbsentTool, "str", "valid")>>,
      <<ToolCall(ServerId1, AbsentTool, "str", "valid"),
        ToolCall(ServerId2, SecondTool(v), "str", "badvalue")>>,
      <<ToolCall(<<>>, FirstTool(v), "str", "valid"),
        ToolCall(<<>>, SecondTool(v), "dict", "valid")>>,
      <<ToolCall(ServerId1, FirstTool(v), "str", "not json"),
        ToolCall(ServerId1, AbsentTool, "str", "not json")>> }

\* the replies of the backend when run / agent_step is called directly
DirectReplies(v) ==
    { Reply(ReplyContents[k], <<>>) : k \in 1..Len(ReplyContents) }
    \cup { Reply(<<>>, l) : l \in DirectToolCallLists(v) }
    \cup { Reply(<<"o","k">>, <<ToolCall(ServerId1, FirstTool(v), "str", "valid")>>) }

\* the replies of the backend to the agents of an orchestration
OrchReplies(v) ==
    { Reply(<<>>, <<>>),
      Reply(<<"o","k">>, <<>>),
      Reply(<<>>, <<ToolCall(ServerId1, FirstTool(v), "str", "valid")>>),
      Reply(<<"o","k">>, <<ToolCall(<<>>, AbsentTool, "str", "valid"),
                           ToolCall(ServerId2, SecondTool(v), "str", "not json")>>) }

\* the replies of the backend to the Synthesizer: a whitespace-only one as well
SynthReplies(v) == OrchReplies(v) \cup { Reply(<<" ">>, <<>>) }

\* the replies of the backend to a MathAgent asked to divide
MathReplies ==
    { Reply(<<>>, <<ToolCall(ServerId1, "divide_numbers", "str", t)>>) :
        t \in ArithmeticArgs }
    \cup { Reply(<<"o","k">>, <<>>) }

\* the replies of the backend at a given driver position
Replies(v, p) ==
    IF p = "direct" THEN DirectReplies(v)
    ELSE IF p = "math" THEN MathReplies
    ELSE IF p = "in_synth" THEN SynthReplies(v)
    ELSE OrchReplies(v)

(* The failures of chat_completion: an HTTP error status, timeout or         *)
(* connection error (raise_for_status / requests.post), and a reply body     *)
(* without the choices list (data["choices"][0]["message"] on null fails     *)
(* with TypeError).                                                          *)
GatewayFailures == {"HTTPError", "TypeError"}

(***************************************************************************)
(* BaseAgent.run / agent_step.                                             *)
(***************************************************************************)
\* an exception on its way out: its type and the call that raised it
Raised(type, by) == [type |-> type, raised_by |-> by]

NoException == Raised("", "")

\* the test  if not tool_calls
NoToolCalls(msg) == msg.tool_calls = <<>>

\* mutation: the loop limit is tested with == instead of >=
MaxLoopsReached_Equality(l, m) == l = m

\* the test  if loops >= max_tool_loops
MaxLoopsReached(l, m) == l >= m

\* mutation: run does not strip the content
FinalContent_Unstripped(v, msg) == msg.content

\* the content a final reply contributes: stripped, except in agent_step
FinalContent(v, msg) == IF v = "raw" THEN msg.content ELSE Strip(msg.content)

\* what run returns for that content (agent_step returns nothing)
ReturnValue(v, content) == IF v = "raw" THEN NoneVal ELSE content

\* mutation: the assistant turn is added even when the content is empty
MemoryAfterFinal_Always(v, history, msg) ==
    MemoryAdd(history, "assistant", FinalContent(v, msg))

\* memory after the final reply: the assistant turn is added when content is not empty
MemoryAfterFinal(v, history, msg) ==
    IF FinalContent(v, msg) # <<>>
    THEN MemoryAdd(history, "assistant", FinalContent(v, msg))
    ELSE history

\* mutation: no agent keeps an execution log
KeepsExecutionLog_Never(v) == FALSE

\* the variants whose run appends to self.execution_log
KeepsExecutionLog(v) == v = "scratchpad"

\* the calls counted for the plan step in progress
CountForStep(sc, p, i) == IF p = "in_step" THEN sc \cup {i} ELSE sc

\* the agent has a Scratchpad
HasScratchpad(v) == v = "scratchpad"

\* the thought add_thought builds (timestamp and metadata left out)
Thought(thought_type, content) == [thought_type |-> thought_type, content |-> content]

\* self.scratchpad.add_thought(thought_type, content)
AddThought(v, thoughts, thought_type, content) ==
    IF HasScratchpad(v) THEN Append(thoughts, Thought(thought_type, content))
    ELSE thoughts

\* [tc.get("function", {}).get("name") for tc in tool_calls]
ToolNames(tool_calls) == [k \in 1..Len(tool_calls) |-> tool_calls[k].name]

\* the tools argument of chat_completion: given is FALSE for None
ToolsArg(given, specs) == [given |-> given, specs |-> specs]

NoTools == ToolsArg(FALSE, {})

\* tools=self.my_tool_specs if self.tools_enabled else None
RunTools(a) == IF a.tools_enabled THEN ToolsArg(TRUE, a.my_tool_specs) ELSE NoTools

\* no response_format / response_model argument
NoConstraint == <<>>

\* the constraint plan() passes: response_format={"type": "json_object"}, or
\* response_model=PlannerOutput
PlanConstraint(v) ==
    IF v = "scratchpad" THEN <<"json_schema", "planneroutput">> ELSE <<"json_object">>

\* the body chat_completion posts: the keys it holds and what they carry
Body(keys, tools, tool_choice, response_format) ==
    [keys |-> keys, tools |-> tools, tool_choice |-> tool_choice,
     response_format |-> response_format]

NoPayload == Body({}, {}, "", <<>>)

(* chat_completion builds the request body.  agent_orchestration: model,     *)
(* messages, temperature, and tools with tool_choice when tools is given;    *)
(* the response_format argument is not used.  The gateway taking a           *)
(* response_model adds response_format when it is given.  raw_agent: always  *)
(* the module's tools and tool_choice "auto".                                *)
RequestBody(v, tools, tool_choice, constraint) ==
    IF v = "raw"
    THEN Body({"model", "messages", "tools", "tool_choice"},
              MyToolSpecs("agent_step"), "auto", <<>>)
    ELSE LET with_format == v = "scratchpad" /\ constraint # NoConstraint
             with_choice == tools.given /\ tool_choice # ""
         IN Body({"model", "messages", "temperature"}
                   \cup (IF with_format THEN {"response_format"} ELSE {})
                   \cup (IF tools.given THEN {"tools"} ELSE {})
                   \cup (IF with_choice THEN {"tool_choice"} ELSE {}),
                 IF tools.given THEN tools.specs ELSE {},
                 IF with_choice THEN tool_choice ELSE "",
                 IF with_format THEN constraint ELSE <<>>)

\* entry of run(user_input, max_tool_loops): memory.add("user", user_input),
\* then the initial_analysis thought; thoughts is the agent's scratchpad
EnterRun(history, thoughts, input, max) ==
    /\ memory' = MemoryAdd(history, "user", input)
    /\ scratchpad' = AddThought(variant, thoughts, "initial_analysis",
                                <<"Processing user request: ">> \o input)
    /\ agent_input' = input
    /\ max_tool_loops' = max
    /\ rpc' = "first_call"
    /\ loops' = 0
    /\ message' = NoMessage
    /\ tc_i' = 0
    /\ result' = NoneVal
    /\ exception' = NoException
    /\ gateway_calls' = 0
    /\ invoked' = <<>>

\* a direct call of run / agent_step on the constructed agent
Run ==
    /\ pc = "direct"
    /\ rpc = "idle"
    /\ \E m \in 0..MaxLoopsBound : EnterRun(memory, scratchpad, UserInputs[1], m)
    /\ UNCHANGED <<variant, pc, agent, execution_log, payload>>
    /\ UNCHANGED trace_vars
    /\ UNCHANGED orch_vars

\* the first chat_completion call of run
FirstCall ==
    /\ rpc = "first_call"
    /\ gateway_calls' = gateway_calls + 1
    /\ payload' = RequestBody(variant, RunTools(agent), "auto", NoConstraint)
    /\ step_calls' = CountForStep(step_calls, pc, step_i)
    /\ \/ \E reply \in Replies(variant, pc) :
            /\ message' = reply
            /\ rpc' = "loop"
            /\ exception' = exception
       \/ \E f \in GatewayFailures :
            /\ message' = message
            /\ rpc' = "raised"
            /\ exception' = Raised(f, "chat_completion")
    /\ UNCHANGED <<variant, pc, user_input, plan_obj, step_i, agent_input, outputs,
                   warnings, retried, agent, memory, loops, max_tool_loops, tc_i,
                   result, invoked, execution_log, synth_calls, plan_log,
                   scratchpad>>
    /\ UNCHANGED trace_vars

\* top of the while loop: count the iteration, then return or record the tool calls
LoopTop ==
    /\ rpc = "loop"
    /\ loops < LoopCap
    /\ loops' = loops + 1
    /\ IF NoToolCalls(message)
       THEN /\ memory' = MemoryAfterFinal(variant, memory, message)
            /\ scratchpad' =
                  IF FinalContent(variant, message) # <<>>
                  THEN AddThought(variant, scratchpad, "final_response",
                                  FinalContent(variant, message))
                  ELSE scratchpad
            /\ result' = ReturnValue(variant, FinalContent(variant, message))
            /\ rpc' = "done"
            /\ tc_i' = tc_i
       ELSE /\ memory' = MemoryAddAssistantToolCalls(memory, message.tool_calls)
            /\ scratchpad' = AddThought(variant, scratchpad, "tool_selection",
                                        <<"Selected tools: ">>
                                          \o ToolNames(message.tool_calls))
            /\ result' = result
            /\ rpc' = "tools"
            /\ tc_i' = 1
    /\ UNCHANGED <<variant, pc, agent, agent_input, max_tool_loops, message, exception,
                   gateway_calls, invoked, execution_log, payload>>
    /\ UNCHANGED trace_vars
    /\ UNCHANGED orch_vars

\* one pass of the for loop over tool_calls
ExecuteToolCall ==
    /\ rpc = "tools"
    /\ LET tc == message.tool_calls[tc_i]
           call_id == CallId(tc, memory)
           fn == tc.name
           args == DecodeArgs(tc.arguments)
           known == ~UnknownTool(variant, fn)
           outcome == IF known THEN InvokeOutcome(fn, args) ELSE "not invoked"
           propagates == known /\ outcome # "returns"
                               /\ outcome \notin CaughtExceptions(variant)
           res == IF ~known THEN UnknownToolResult(fn)
                  ELSE IF outcome = "returns" THEN ToolReturn(fn, args)
                  ELSE ErrorResult(variant, fn, outcome)
       IN
       /\ invoked' = IF known THEN Append(invoked, [name |-> fn, args |-> args])
                     ELSE invoked
       /\ step_calls' = IF known THEN CountForStep(step_calls, pc, step_i)
                        ELSE step_calls
       /\ IF propagates
          THEN /\ rpc' = "raised"
               /\ exception' = Raised(outcome, "tool")
               /\ UNCHANGED <<memory, execution_log, tc_i, scratchpad>>
          ELSE /\ memory' = MemoryAddToolResult(memory, call_id, fn, res)
               /\ scratchpad' = AddThought(variant, scratchpad, "tool_execution",
                                           <<"Executed ", fn, " with args ", args,
                                             ", result: ">> \o res)
               /\ execution_log' =
                     IF KeepsExecutionLog(variant)
                     THEN Append(execution_log,
                                 [name |-> fn, args |-> args, result |-> res])
                     ELSE execution_log
               /\ tc_i' = tc_i + 1
               /\ rpc' = IF tc_i = Len(message.tool_calls) THEN "ask_again" ELSE "tools"
               /\ exception' = exception
    /\ UNCHANGED <<variant, pc, user_input, plan_obj, step_i, agent_input, outputs,
                   warnings, retried, agent, loops, max_tool_loops, message,
                   result, gateway_calls, synth_calls, plan_log, payload>>
    /\ UNCHANGED trace_vars

\* the chat_completion call after a tool round, and the loop-limit test
AskAgain ==
    /\ rpc = "ask_again"
    /\ gateway_calls' = gateway_calls + 1
    /\ payload' = RequestBody(variant, RunTools(agent), "auto", NoConstraint)
    /\ step_calls' = CountForStep(step_calls, pc, step_i)
    /\ \/ \E reply \in Replies(variant, pc) :
            /\ message' = reply
            /\ exception' = exception
            /\ IF MaxLoopsReached(loops, max_tool_loops)
               THEN /\ memory' = MemoryAfterFinal(variant, memory, reply)
                    /\ result' = ReturnValue(variant, FinalContent(variant, reply))
                    /\ rpc' = "forced_stop"
               ELSE /\ rpc' = "loop"
                    /\ UNCHANGED <<memory, result>>
       \/ \E f \in GatewayFailures :
            /\ rpc' = "raised"
            /\ exception' = Raised(f, "chat_completion")
            /\ UNCHANGED <<message, memory, result>>
    /\ UNCHANGED <<variant, pc, user_input, plan_obj, step_i, agent_input, outputs,
                   warnings, retried, agent, loops, max_tool_loops, tc_i,
                   invoked, execution_log, synth_calls, plan_log, scratchpad>>
    /\ UNCHANGED trace_vars

(***************************************************************************)
(* Direct calls of run / agent_step (run_agent in the raw variant).        *)
(***************************************************************************)
\* str.replace(a, b) on a text
Replace(text, a, b) == [k \in 1..Len(text) |-> IF text[k] = a THEN b ELSE text[k]]

\* the trace run_orchestration builds (the scratchpad texts left out)
Trace(request, plan, logs, final_answer) ==
    [user_input |-> request, plan |-> plan, agent_logs |-> logs,
     final_answer |-> final_answer]

(* agent.execution_log as agent_logs holds it: the list object of the agent *)
(* created for plan step owner, and whether it holds any record (the test    *)
(* "if tool_calls" of the rendering)                                         *)
LogList(owner, log) == [owner |-> owner, any |-> log # <<>>]

NoLogList == [owner |-> 0, any |-> FALSE]

\* the tool-call nodes drawn under plan step i: the records of the list
\* agent_logs[i] holds, none when agent_logs has no i-th entry
DrawnCalls(logs, i) == IF i <= Len(logs) THEN logs[i].tool_calls ELSE NoLogList

\* the diagram: one node per plan step with its tool-call nodes, and the
\* final answer when the plan is not empty
render_mermaid_trace(trace) ==
    [user_input |-> trace.user_input,
     nodes |-> [i \in 1..Len(trace.plan) |->
                  [agent |-> trace.plan[i].agent,
                   calls |-> DrawnCalls(trace.agent_logs, i)]],
     final_answer |-> IF trace.plan # <<>>
                      THEN Replace(trace.final_answer, "\n", " ") ELSE <<>>]

NoMermaid == [user_input |-> <<>>, nodes |-> <<>>, final_answer |-> <<>>]

NoPlan == [kind |-> "none", plan_t |-> "missing", steps |-> <<>>, notes |-> ""]

InitDirect ==
    /\ variant \in Variants
    /\ pc = "direct"
    /\ user_input = UserInputs[1]
    /\ plan_obj = NoPlan
    /\ step_i = 0
    /\ agent_input = <<>>
    /\ outputs = <<>>
    /\ warnings = <<>>
    /\ retried = FALSE
    /\ \E n \in DirectAgents(variant) :
          /\ agent = NewAgent(n)
          /\ memory = MemoryInit(SystemPrompt(n))
    /\ rpc = "idle"
    /\ loops = 0
    /\ max_tool_loops = DefaultMaxToolLoops
    /\ message = NoMessage
    /\ tc_i = 0
    /\ result = NoneVal
    /\ exception = NoException
    /\ gateway_calls = 0
    /\ invoked = <<>>
    /\ execution_log = <<>>
    /\ step_calls = {}
    /\ synth_calls = 0
    /\ plan_log = <<>>
    /\ payload = NoPayload
    /\ scratchpad = <<>>
    /\ agent_logs = <<>>
    /\ mermaid = NoMermaid

\* the next call of run / agent_step on the same channel (the loop of run_agent)
RunAgain ==
    /\ pc = "direct"
    /\ rpc \in {"done", "forced_stop"}
    /\ Len(memory) <= MaxChannelLen
    /\ EnterRun(memory, scratchpad, UserInputs[2], 1)
    /\ UNCHANGED <<variant, pc, agent, execution_log, payload>>
    /\ UNCHANGED trace_vars
    /\ UNCHANGED orch_vars

\* BaseAgent.__init__ with an injected memory: the system prompt is appended
ConstructOnChannel ==
    /\ pc = "direct"
    /\ variant # "raw"
    /\ rpc \in {"idle", "done", "forced_stop"}
    /\ Len(memory) <= MaxChannelLen
    /\ \E n \in DirectAgents(variant) :
          /\ agent' = NewAgent(n)
          /\ memory' = MemoryAdd(memory, "system", SystemPrompt(n))
    /\ execution_log' = <<>>
    /\ scratchpad' = <<>>
    /\ rpc' = "idle"
    /\ UNCHANGED <<variant, pc, agent_input, loops, max_tool_loops, message, tc_i,
                   result, exception, gateway_calls, invoked, payload>>
    /\ UNCHANGED trace_vars
    /\ UNCHANGED orch_vars

NextRun == Run \/ FirstCall \/ LoopTop \/ ExecuteToolCall \/ AskAgain

RunSpec == InitDirect /\ [][NextRun]_vars

FairRunSpec == RunSpec /\ WF_vars(NextRun)

NextChannel == NextRun \/ RunAgain \/ ConstructOnChannel

\* several constructions and runs on one channel
ChannelSpec == InitDirect /\ [][NextChannel]_vars

(***************************************************************************)
(* PlannerAgent.plan.                                                      *)
(***************************************************************************)
(* A plan step as it arrives in the model's reply.  shape is "dict" or       *)
(* "scalar" (a list element that is not a mapping); agent_t and input_t say  *)
(* what the keys hold: "str", "missing", or "list" (an unhashable value).    *)
StepValue(shape, agent_t, name, input_t, input) ==
    [shape |-> shape, agent_t |-> agent_t, agent |-> name,
     input_t |-> input_t, input |-> input]

PlanStep(name, input) == StepValue("dict", "str", name, "str", input)

(* The content of the planner's reply.  text is the kind of text: "garbage"  *)
(* (no JSON object in it), "json" (exactly one JSON object, also a Python    *)
(* literal), "json_in_prose" (a JSON object with text around it),            *)
(* "json_with_null" (a JSON object using null/true/false) or                 *)
(* "python_literal" (a dict literal with single quotes).  out is the text    *)
(* itself where it matters, plan_t the type of the value under "plan"        *)
(* ("list", "str", "null" or "missing") and steps the elements of the list.  *)
PlanContent(text, out, plan_t, steps) ==
    [text |-> text, out |-> out, plan_t |-> plan_t, steps |-> steps]

BraceText == <<"{", "}">>
StepText == <<"x">>
AbsentAgent == "GhostAgent"

\* the reply contents the backend gives the planner
PlanContents(v) ==
    LET a1 == PlanCatalog(v)[1]
        a2 == PlanCatalog(v)[2]
    IN { PlanContent("garbage", <<"s","o","r","r","y">>, "missing", <<>>),
         PlanContent("garbage", <<"W","e","a","t","h","e","r"," ","n","e","w","s">>,
                     "missing", <<>>),
         PlanContent("json", BraceText, "list", <<PlanStep(a1, StepText)>>),
         PlanContent("json", BraceText, "list",
                     <<PlanStep(a1, StepText), PlanStep(AbsentAgent, StepText)>>),
         PlanContent("json", BraceText, "list",
                     <<PlanStep(AbsentAgent, StepText), PlanStep(a2, <<>>)>>),
         PlanContent("json", BraceText, "list", <<>>),
         PlanContent("json", BraceText, "missing", <<>>),
         PlanContent("json", BraceText, "str", <<>>),
         PlanContent("json", BraceText, "list",
                     <<StepValue("scalar", "missing", "", "missing", <<>>)>>),
         PlanContent("json", BraceText, "list",
                     <<StepValue("dict", "str", a2, "missing", <<>>)>>),
         PlanContent("json", BraceText, "list",
                     <<StepValue("dict", "list", "", "str", StepText)>>),
         PlanContent("json", BraceText, "list",
                     <<PlanStep("PlannerAgent", StepText),
                       StepValue("dict", "missing", "", "str", StepText)>>),
         PlanContent("json_in_prose", BraceText, "list",
                     <<PlanStep(a1, StepText), PlanStep(a1, <<>>)>>),
         PlanContent("json_with_null", BraceText, "null", <<>>),
         PlanContent("python_literal", BraceText, "list", <<PlanStep(a2, StepText)>>),
         PlanContent("python_literal", BraceText, "list",
                     <<PlanStep(a2, StepText), PlanStep(a2, <<>>)>>) }

\* the object plan() returns
PlanObject(kind, plan_t, steps, notes) ==
    [kind |-> kind, plan_t |-> plan_t, steps |-> steps, notes |-> notes]

\* json.loads(out[out.find("{") : out.rfind("}") + 1]) succeeds
JsonExtractable(c) == c.text \in {"json", "json_in_prose", "json_with_null"}

\* ast.literal_eval(out) succeeds
LiteralEvaluable(c) == c.text \in {"json", "python_literal"}

\* PlannerOutput.model_validate_json accepts the value
ValidatesAsPlannerOutput(c) ==
    /\ c.plan_t \in {"list", "missing"}
    /\ \A k \in 1..Len(c.steps) :
          /\ c.steps[k].shape = "dict"
          /\ c.steps[k].agent_t = "str"
          /\ c.steps[k].input_t = "str"

\* the try block of plan() succeeds
Parses(v, c) ==
    IF v = "scratchpad"
    THEN LiteralEvaluable(c) /\ ValidatesAsPlannerOutput(c)
    ELSE JsonExtractable(c)

\* the keywords of the fallback heuristic, per agent of the catalog
FirstKeywords(v) ==
    IF v = "scratchpad"
    THEN { <<"n","e","w","s">>, <<"h","e","a","d","l","i","n","e","s">>,
           <<"a","r","t","i","c","l","e">> }
    ELSE { <<"w","e","a","t","h","e","r">> }

\* mutation: "in" is a keyword of the second agent as well
SecondKeywords_WithIn(v) ==
    IF v = "scratchpad" THEN { <<"m","a","t","h">>, <<"i","n">> }
    ELSE { <<"i","n","f","o">>, <<"a","b","o","u","t">>, <<"i","n">> }

SecondKeywords(v) ==
    IF v = "scratchpad"
    THEN { <<"c","a","l","c","u","l","a","t","e">>, <<"m","a","t","h">>,
           <<"a","d","d">>, <<"s","u","b","t","r","a","c","t">>,
           <<"m","u","l","t","i","p","l","y">>, <<"d","i","v","i","d","e">>,
           <<"s","u","m">> }
    ELSE { <<"i","n","f","o">>, <<"i","n","f","o","r","m","a","t","i","o","n">>,
           <<"a","b","o","u","t">>,
           <<"t","e","l","l"," ","m","e"," ","a","b","o","u","t">>,
           <<"w","h","e","r","e"," ","i","s">> }

\* mutation: the second agent of the catalog is tested first
FallbackSteps_SecondFirst(v, searched, input) ==
    LET lowered == Lower(searched)
    IN (IF \E k \in SecondKeywords(v) : Contains(lowered, k)
        THEN <<PlanStep(PlanCatalog(v)[2], input)>> ELSE <<>>)
       \o (IF \E k \in FirstKeywords(v) : Contains(lowered, k)
           THEN <<PlanStep(PlanCatalog(v)[1], input)>> ELSE <<>>)

\* the except branch of plan(): the keyword heuristic; searched is the text
\* the keywords are looked up in, input the input given to each step
FallbackSteps(v, searched, input) ==
    LET lowered == Lower(searched)
    IN (IF \E k \in FirstKeywords(v) : Contains(lowered, k)
        THEN <<PlanStep(PlanCatalog(v)[1], input)>> ELSE <<>>)
       \o (IF \E k \in SecondKeywords(v) : Contains(lowered, k)
           THEN <<PlanStep(PlanCatalog(v)[2], input)>> ELSE <<>>)

\* mutation: the heuristic searches the model output instead of the request
PlanResult_SearchesReply(v, history, input, c) ==
    IF Parses(v, c)
    THEN PlanObject("decoded", IF v = "scratchpad" THEN "list" ELSE c.plan_t,
                    c.steps, "notes")
    ELSE PlanObject("fallback", "list", FallbackSteps(v, c.out, input), "fallback plan")

\* the value plan(user_input) returns when the backend replies with content c;
\* history is the planner's channel when the request was sent
PlanResult(v, history, input, c) ==
    IF Parses(v, c)
    THEN PlanObject("decoded", IF v = "scratchpad" THEN "list" ELSE c.plan_t,
                    c.steps, "notes")
    ELSE PlanObject("fallback", "list", FallbackSteps(v, input, input), "fallback plan")

\* plan_obj.get("plan", [])
PlanList(obj) == IF obj.plan_t = "missing" THEN <<>> ELSE obj.steps

\* mutation: a Plan without the "plan" key cannot be iterated
Iterable_ListOnly(obj) == obj.plan_t = "list"

\* the for loop can iterate over the plan value without raising
Iterable(obj) == obj.plan_t \in {"list", "missing"}

\* what the backend puts in the tool_calls of its reply to the planner: a
\* tool call may come with the contents that state no plan
PlannerToolCalls(v, c) ==
    IF c.plan_t = "missing"
    THEN { <<>>, <<ToolCall(ServerId1, FirstTool(v), "str", "")>> }
    ELSE { <<>> }

(* PlannerAgent.plan: called by run_orchestration on a fresh planner (pc =   *)
(* "start"), or directly on a constructed planner (pc = "planner").          *)
PlannerPlan ==
    /\ pc \in {"start", "planner"}
    /\ Len(plan_log) < MaxPlanCalls
    /\ \E k \in 1..Len(UserInputs) :
         LET u == IF pc = "start" THEN user_input ELSE UserInputs[k]
             before == IF pc = "start"
                       THEN MemoryInit(SystemPrompt("PlannerAgent"))
                       ELSE memory
             sent == MemoryAdd(before, "user", u)
         IN
         /\ pc = "start" => k = 1
         /\ user_input' = u
         /\ agent' = NewAgent("PlannerAgent")
         /\ memory' = sent
         /\ gateway_calls' = gateway_calls + 1
         /\ payload' = RequestBody(variant, NoTools, "auto", PlanConstraint(variant))
         /\ \/ \E c \in PlanContents(variant) : \E tcs \in PlannerToolCalls(variant, c) :
                 LET obj == PlanResult(variant, sent, u, c)
                     thoughts == IF pc = "start" THEN <<>> ELSE scratchpad
                 IN /\ plan_obj' = obj
                    /\ message' = Reply(c.out, tcs)
                    /\ scratchpad' =
                          AddThought(variant, thoughts, "planning_result",
                                     <<IF Parses(variant, c) THEN "Generated plan: "
                                       ELSE "Fallback plan: ", obj>>)
                    /\ plan_log' = Append(plan_log,
                          [user_input |-> u, content |-> c,
                           channel_len |-> Len(sent), obj |-> obj])
                    /\ step_calls' = {}
                    /\ pc' = IF pc = "start" THEN "steps" ELSE pc
                    /\ step_i' = 1
                    /\ exception' = exception
            \/ \E f \in GatewayFailures :
                 /\ exception' = Raised(f, "chat_completion")
                 /\ pc' = "raised"
                 /\ scratchpad' = IF pc = "start" THEN <<>> ELSE scratchpad
                 /\ UNCHANGED <<plan_obj, plan_log, step_calls, step_i, message>>
    /\ UNCHANGED <<variant, agent_input, outputs, warnings, retried, rpc, loops,
                   max_tool_loops, tc_i, result, invoked, execution_log, synth_calls>>
    /\ UNCHANGED trace_vars

(***************************************************************************)
(* run_orchestration.                                                      *)
(***************************************************************************)
\* mutation: the registry holds an instance, whose channel is the one in use
StepChannel_InUse(history, name) == history

\* the channel of the agent _create_agent returns: the registry holds classes,
\* so the agent is a new instance with a private Memory(system_prompt)
StepChannel(history, name) == MemoryInit(SystemPrompt(name))

\* mutation: after the second step the loop goes back to the first
NextStep_GoesBack(i) == IF i = 2 THEN 1 ELSE i + 1

\* the for loop moves on to the next element of the plan
NextStep(i) == i + 1

\* mutation: the registry test is missing
AgentRegistered_NoTest(v, name) == TRUE

\* the test  agent_name not in AGENT_REGISTRY  (negated)
AgentRegistered(v, name) == name \in AGENT_REGISTRY(v)

\* mutation: the step's input is used even when it is missing or empty
StepInput_StepOnly(step, request) == step.input

\* step.get("input") or user_input
StepInput(step, request) ==
    IF step.input_t = "str" /\ step.input # <<>> THEN step.input ELSE request

\* the name logged for a step: None when the key is missing
StepAgentName(step) == IF step.agent_t = "str" THEN step.agent ELSE "None"

\* mutation: every result is stored as a new entry
DictSet_Append(d, k, val) == Append(d, [agent |-> k, output |-> val])

\* outputs[agent_name] = result on an insertion-ordered dict
DictSet(d, k, val) ==
    IF \E i \in 1..Len(d) : d[i].agent = k
    THEN [i \in 1..Len(d) |-> IF d[i].agent = k THEN [agent |-> k, output |-> val] ELSE d[i]]
    ELSE Append(d, [agent |-> k, output |-> val])

RECURSIVE OutputLines(_)
OutputLines(d) ==
    IF d = <<>> THEN <<>>
    ELSE <<"\n", "- ", d[1].agent, ": ">> \o d[1].output \o OutputLines(Tail(d))

\* mutation: the compose instruction is left out
SynthPrompt_NoInstruction(request, d) ==
    <<"User request: ">> \o request \o <<"\n", "Agent outputs:">>
    \o OutputLines(d)

\* the prompt synthesize() builds
SynthPrompt(request, d) ==
    <<"User request: ">> \o request \o <<"\n", "Agent outputs:">>
    \o OutputLines(d)
    \o <<"\n", "Compose a concise final answer for the user.">>

\* one pass of  for step in plan  up to the call of agent.run
DispatchStep ==
    /\ pc = "steps"
    /\ ~Iterable(plan_obj) \/ step_i <= Len(PlanList(plan_obj))
    /\ IF ~Iterable(plan_obj)
       THEN \* a str yields characters (step.get fails), None is not iterable
            /\ pc' = "raised"
            /\ exception' = Raised(IF plan_obj.plan_t = "str" THEN "AttributeError"
                                   ELSE "TypeError", "run_orchestration")
            /\ UNCHANGED <<step_i, warnings, agent, memory, execution_log, retried,
                           agent_input, max_tool_loops, rpc, loops, message, tc_i,
                           result, gateway_calls, invoked, scratchpad>>
       ELSE LET step == PlanList(plan_obj)[step_i]
            IN
            IF step.shape # "dict" \/ step.agent_t = "list"
            THEN \* step.get on a non-mapping; an unhashable name in the registry test
                 /\ pc' = "raised"
                 /\ exception' = Raised(IF step.shape # "dict" THEN "AttributeError"
                                        ELSE "TypeError", "run_orchestration")
                 /\ UNCHANGED <<step_i, warnings, agent, memory, execution_log, retried,
                                agent_input, max_tool_loops, rpc, loops, message, tc_i,
                                result, gateway_calls, invoked, scratchpad>>
            ELSE IF step.agent_t # "str" \/ ~AgentRegistered(variant, step.agent)
            THEN \* unknown agent: warning, continue
                 /\ warnings' = Append(warnings, StepAgentName(step))
                 /\ step_i' = NextStep(step_i)
                 /\ UNCHANGED <<pc, exception, agent, memory, execution_log, retried,
                                agent_input, max_tool_loops, rpc, loops, message, tc_i,
                                result, gateway_calls, invoked, scratchpad>>
            ELSE IF step.agent \notin AGENT_REGISTRY(variant)
            THEN \* AGENT_REGISTRY[agent_name] on a missing key
                 /\ pc' = "raised"
                 /\ exception' = Raised("KeyError", "run_orchestration")
                 /\ UNCHANGED <<step_i, warnings, agent, memory, execution_log, retried,
                                agent_input, max_tool_loops, rpc, loops, message, tc_i,
                                result, gateway_calls, invoked, scratchpad>>
            ELSE \* _create_agent, then agent.run(agent_input)
                 /\ agent' = NewAgent(step.agent)
                 /\ execution_log' = <<>>
                 /\ retried' = FALSE
                 /\ pc' = "in_step"
                 /\ EnterRun(StepChannel(memory, step.agent), <<>>,
                             StepInput(step, user_input), DefaultMaxToolLoops)
                 /\ UNCHANGED <<step_i, warnings>>
    /\ UNCHANGED <<variant, user_input, plan_obj, outputs, step_calls, synth_calls,
                   plan_log, payload>>
    /\ UNCHANGED trace_vars

\* the except TypeError branch: BaseAgent.run(agent, agent_input) on the same agent
RetryStep ==
    /\ pc = "in_step"
    /\ rpc = "raised"
    /\ exception.type = "TypeError"
    /\ ~retried
    /\ retried' = TRUE
    /\ EnterRun(memory, scratchpad, agent_input, DefaultMaxToolLoops)
    /\ UNCHANGED <<variant, pc, user_input, plan_obj, step_i, outputs, warnings,
                   agent, execution_log, step_calls, synth_calls, plan_log, payload>>
    /\ UNCHANGED trace_vars

\* an exception of run that run_orchestration does not handle leaves it
PropagateRaise ==
    /\ pc \in {"in_step", "in_synth"}
    /\ rpc = "raised"
    /\ pc = "in_step" => (exception.type # "TypeError" \/ retried)
    /\ pc' = "raised"
    /\ UNCHANGED <<variant, user_input, plan_obj, step_i, agent_input, outputs,
                   warnings, retried, agent, memory, rpc, loops, max_tool_loops,
                   message, tc_i, result, exception, gateway_calls, invoked,
                   execution_log, step_calls, synth_calls, plan_log, payload,
                   scratchpad>>
    /\ UNCHANGED trace_vars

\* the entry appended to agent_logs for a step
LogEntry(name, input, list) == [agent |-> name, input |-> input, tool_calls |-> list]

\* outputs[agent_name] = result, agent_logs.append(...), and on to the next step
FinishStep ==
    /\ pc = "in_step"
    /\ rpc \in {"done", "forced_stop"}
    /\ outputs' = DictSet(outputs, agent.name, result)
    /\ agent_logs' = IF KeepsExecutionLog(variant)
                     THEN Append(agent_logs, LogEntry(agent.name, agent_input,
                                           LogList(step_i, execution_log)))
                     ELSE agent_logs
    /\ step_i' = NextStep(step_i)
    /\ pc' = "steps"
    /\ rpc' = "idle"
    /\ UNCHANGED <<variant, user_input, plan_obj, agent_input, warnings, retried,
                   agent, memory, loops, max_tool_loops, message, tc_i, result,
                   exception, gateway_calls, invoked, execution_log, step_calls,
                   synth_calls, plan_log, payload, scratchpad, mermaid>>

\* SynthesizerAgent() and synthesize(user_input, outputs) up to the call of run
Synthesize ==
    /\ pc = "steps"
    /\ Iterable(plan_obj)
    /\ step_i > Len(PlanList(plan_obj))
    /\ agent' = NewAgent("SynthesizerAgent")
    /\ execution_log' = <<>>
    /\ synth_calls' = synth_calls + 1
    /\ pc' = "in_synth"
    /\ EnterRun(MemoryInit(SystemPrompt("SynthesizerAgent")), <<>>,
                SynthPrompt(user_input, outputs), DefaultMaxToolLoops)
    /\ UNCHANGED <<variant, user_input, plan_obj, step_i, outputs, warnings, retried,
                   step_calls, plan_log, payload>>
    /\ UNCHANGED trace_vars

\* the trace is rendered (scratchpad variant), then  return final_answer
Return ==
    /\ pc = "in_synth"
    /\ rpc \in {"done", "forced_stop"}
    /\ pc' = "returned"
    /\ mermaid' = IF KeepsExecutionLog(variant)
                  THEN render_mermaid_trace(Trace(user_input, PlanList(plan_obj),
                                                  agent_logs, result))
                  ELSE mermaid
    /\ UNCHANGED <<variant, user_input, plan_obj, step_i, agent_input, outputs,
                   warnings, retried, agent, memory, rpc, loops, max_tool_loops,
                   message, tc_i, result, exception, gateway_calls, invoked,
                   execution_log, step_calls, synth_calls, plan_log, payload,
                   scratchpad, agent_logs>>

\* the state shared by the two initial conditions below
InitCommon ==
    /\ variant \in {"orchestration", "scratchpad"}
    /\ plan_obj = NoPlan
    /\ step_i = 0
    /\ agent_input = <<>>
    /\ outputs = <<>>
    /\ warnings = <<>>
    /\ retried = FALSE
    /\ rpc = "idle"
    /\ loops = 0
    /\ max_tool_loops = DefaultMaxToolLoops
    /\ message = NoMessage
    /\ tc_i = 0
    /\ result = NoneVal
    /\ exception = NoException
    /\ gateway_calls = 0
    /\ invoked = <<>>
    /\ execution_log = <<>>
    /\ step_calls = {}
    /\ synth_calls = 0
    /\ plan_log = <<>>
    /\ payload = NoPayload
    /\ scratchpad = <<>>
    /\ agent_logs = <<>>
    /\ mermaid = NoMermaid

\* run_orchestration(user_input) is entered
Init ==
    /\ InitCommon
    /\ pc = "start"
    /\ \E k \in 1..Len(UserInputs) : user_input = UserInputs[k]
    /\ agent = NoAgent
    /\ memory = <<>>

Next ==
    \/ PlannerPlan
    \/ DispatchStep
    \/ FirstCall
    \/ LoopTop
    \/ ExecuteToolCall
    \/ AskAgain
    \/ RetryStep
    \/ PropagateRaise
    \/ FinishStep
    \/ Synthesize
    \/ Return

Spec == Init /\ [][Next]_vars

\* every call returns or raises: the orchestration always takes its next step
FairSpec == Spec /\ WF_vars(Next)

\* a PlannerAgent has been constructed and plan() is called on it directly
InitPlanner ==
    /\ InitCommon
    /\ pc = "planner"
    /\ user_input = UserInputs[1]
    /\ agent = NewAgent("PlannerAgent")
    /\ memory = MemoryInit(SystemPrompt("PlannerAgent"))

NextPlan == PlannerPlan

PlanSpec == InitPlanner /\ [][NextPlan]_vars

\* a MathAgent is constructed and run is called on it
InitMath ==
    /\ InitCommon
    /\ variant = "scratchpad"
    /\ pc = "math"
    /\ user_input = UserInputs[3]
    /\ agent = NewAgent("MathAgent")
    /\ memory = MemoryInit(SystemPrompt("MathAgent"))

RunMath ==
    /\ pc = "math"
    /\ rpc = "idle"
    /\ EnterRun(memory, scratchpad, user_input, 1)
    /\ UNCHANGED <<variant, pc, agent, execution_log, payload>>
    /\ UNCHANGED trace_vars
    /\ UNCHANGED orch_vars

NextMath == RunMath \/ FirstCall \/ LoopTop \/ ExecuteToolCall \/ AskAgain

\* a MathAgent run whose model asks for divisions
MathSpec == InitMath /\ [][NextMath]_vars

(***************************************************************************)
(* Properties of the executor loop.                                        *)
(***************************************************************************)
\* the run in progress has ended normally
RunReturned == rpc \in {"done", "forced_stop"}

\* a gateway call or a tool invocation of the run did not return
CallDidNotReturn == rpc = "raised" /\ exception # NoException

\* run / agent_step was left by an exception raised inside a tool function
RaisedByTool == rpc = "raised" /\ exception.raised_by = "tool"

\* C1: for every max_tool_loops, a run makes at most max_tool_loops + 1
\* model-gateway calls.
C1_GatewayCallsAtMostMaxPlusOne == gateway_calls <= max_tool_loops + 1

\* C2: every run ends in DONE or FORCED_STOP, whatever the model replies,
\* unless a gateway call or a tool invocation fails to return.
C2_RunTerminates == (rpc = "first_call") ~> (RunReturned \/ CallDidNotReturn)

\* a run stopped by the loop limit while the model was still requesting tools
C2_Witness ==
    /\ rpc = "forced_stop"
    /\ ~NoToolCalls(message)
    /\ loops = max_tool_loops
    /\ loops >= 2

\* the tool turns that answer the assistant turn at position p of a channel
AnsweredAt(h, p) ==
    LET calls == h[p].tool_calls
        n == Len(calls)
    IN /\ p + n <= Len(h)
       /\ \A k \in 1..n :
             /\ h[p + k].role = "tool"
             /\ h[p + k].name = calls[k].name
             /\ calls[k].id # <<>> => h[p + k].tool_call_id = calls[k].id
       /\ p + n < Len(h) => h[p + n + 1].role # "tool"

\* the positions of a channel holding an assistant turn with tool calls
ToolCallTurns(h) == {p \in 1..Len(h) : h[p].tool_calls # <<>>}

\* every tool turn of the channel lies in the block answering a tool-calls turn
ToolTurnsOwned(h) ==
    \A q \in 1..Len(h) :
        h[q].role = "tool" =>
            \E p \in ToolCallTurns(h) : p < q /\ q <= p + Len(h[p].tool_calls)

\* C3: at every model-gateway request, each ToolCall of the channel has exactly
\* one ToolResult, appended after its assistant turn and before the request.
C3_RoundTrip ==
    rpc \in {"first_call", "ask_again"} =>
        /\ \A p \in ToolCallTurns(memory) : AnsweredAt(memory, p)
        /\ ToolTurnsOwned(memory)

\* a second tool round with two calls has been answered and the request is next
C3_Witness ==
    /\ rpc = "ask_again"
    /\ Len(message.tool_calls) = 2
    /\ Cardinality(ToolCallTurns(memory)) >= 2

\* C4: a failing tool invocation becomes a textual error ToolResult and never
\* propagates out of run / agent_step.
C4_ToolFailureNeverPropagates == ~RaisedByTool

\* raw_arguments is a string that json.loads rejects
Malformed(raw) == raw.py = "str" /\ raw.body # "" /\ ~Decodable(raw.body)

\* the result strings the executor builds itself
IsErrorResult(res) ==
    res[1] \in {"Error: unknown tool", "Error invoking", "Error when invoking", "Tool failed"}

\* the tool call the for loop handled last
LastHandled == message.tool_calls[tc_i - 1]

\* some call of the current round has been handled and its result appended
SomeHandled == rpc \in {"tools", "ask_again"} /\ tc_i > 1

\* C5 as stated: a call with a malformed arguments payload yields a textual
\* error result as its ToolResult.
C5_MalformedArgsYieldErrorResult ==
    (SomeHandled /\ Malformed(LastHandled.arguments)) =>
        IsErrorResult(memory[Len(memory)].content)

\* C5 amended: a call with a malformed arguments payload is invoked with empty
\* arguments and never ends the loop itself: exactly one ToolResult is appended
\* for it (the tool's own result when the tool takes no parameter, a textual
\* error otherwise) and the run goes on to the next call or model request.
C5_MalformedArgsInvokedEmpty ==
    [][ (rpc = "tools" /\ Malformed(message.tool_calls[tc_i].arguments)) =>
            LET fn == message.tool_calls[tc_i].name
                last == memory'[Len(memory')]
            IN /\ rpc' \in {"tools", "ask_again"}
               /\ memory' = Append(memory, last)
               /\ last.role = "tool"
               /\ last.name = fn
               /\ IF fn \in TOOL_FUNCS(variant) /\ fn \in NoParameterTools
                  THEN last.content = ToolReturn(fn, "empty")
                  ELSE IsErrorResult(last.content) ]_vars

\* a malformed payload sent to a tool without parameters got the tool's result
C5_Witness ==
    /\ SomeHandled
    /\ Malformed(LastHandled.arguments)
    /\ LastHandled.name \in NoParameterTools
    /\ memory[Len(memory)].content = ToolReturn(LastHandled.name, "empty")

\* C6: a call naming a tool absent from the registry gets a ToolResult starting
\* with "Error: unknown tool", no tool function is invoked for it, and the run
\* goes on to a later model-gateway call.
C6_UnknownToolErrorAndContinue ==
    \A k \in 1..Len(message.tool_calls) :
        ((rpc \in {"tools", "ask_again"} \/ RaisedByTool) /\ k < tc_i
           /\ UnknownTool(variant, message.tool_calls[k].name)) =>
            LET p == Len(memory) - (tc_i - 1)
            IN /\ memory[p + k].content[1] = "Error: unknown tool"
               /\ \A j \in 1..Len(invoked) :
                     invoked[j].name # message.tool_calls[k].name
               /\ ~RaisedByTool

(***************************************************************************)
(* Properties of the planner and the orchestrator.                         *)
(***************************************************************************)
\* C7: for every behaviour of the model other than a transport/backend
\* failure, run_orchestration returns and never raises.
C7_OrchestrationNeverRaises ==
    pc = "raised" => exception.raised_by = "chat_completion"

\* a mapping whose step list is a list of steps with a string agent and input
ValidPlan(obj) ==
    /\ obj.plan_t = "list"
    /\ \A k \in 1..Len(obj.steps) :
          /\ obj.steps[k].shape = "dict"
          /\ obj.steps[k].agent_t = "str"
          /\ obj.steps[k].input_t = "str"

\* C8: whatever the model replies, plan() returns a syntactically valid Plan.
C8_PlanAlwaysValid ==
    \A i \in 1..Len(plan_log) : ValidPlan(plan_log[i].obj)

\* C9: two plan() calls that fall back and have equal user_input return equal
\* Plans, whatever the model output, the channel contents and the earlier calls.
C9_FallbackDeterministic ==
    \A i, j \in 1..Len(plan_log) :
        (/\ plan_log[i].obj.kind = "fallback"
         /\ plan_log[j].obj.kind = "fallback"
         /\ plan_log[i].user_input = plan_log[j].user_input)
        => plan_log[i].obj = plan_log[j].obj

\* the same request fell back twice, on different replies and channel contents,
\* and the fallback Plan has a step
C9_Witness ==
    /\ Len(plan_log) = 2
    /\ plan_log[1].obj.kind = "fallback"
    /\ plan_log[2].obj.kind = "fallback"
    /\ plan_log[1].user_input = plan_log[2].user_input
    /\ plan_log[1].content # plan_log[2].content
    /\ plan_log[1].channel_len # plan_log[2].channel_len
    /\ plan_log[2].obj.steps # <<>>

\* the plan has two well-formed steps, step ok naming a registered agent and
\* step bad an unregistered one
OneValidOneInvalid(ok, bad) ==
    /\ plan_obj.kind # "none"
    /\ ValidPlan(plan_obj)
    /\ Len(plan_obj.steps) = 2
    /\ {ok, bad} = {1, 2}
    /\ plan_obj.steps[ok].agent \in AGENT_REGISTRY(variant)
    /\ plan_obj.steps[bad].agent \notin AGENT_REGISTRY(variant)

\* C10: with one valid and one invalid step, in either order, the run is not
\* aborted: no call is made for the invalid step, and once run_orchestration
\* has returned the output map holds the valid step's entry only, one warning
\* names the invalid agent and the Synthesizer was invoked.
C10_UnknownAgentSkipped ==
    \A ok, bad \in {1, 2} :
        OneValidOneInvalid(ok, bad) =>
            /\ bad \notin step_calls
            /\ pc = "raised" => exception.raised_by = "chat_completion"
            /\ pc = "returned" =>
                  /\ Len(outputs) = 1
                  /\ outputs[1].agent = plan_obj.steps[ok].agent
                  /\ warnings = <<plan_obj.steps[bad].agent>>
                  /\ synth_calls = 1

\* the invalid step came first, the valid one ran with tools, and the run returned
C10_Witness ==
    /\ OneValidOneInvalid(2, 1)
    /\ pc = "returned"
    /\ 2 \in step_calls
    /\ outputs # <<>>
    /\ warnings # <<>>

\* C11: no orchestration run dispatches a plan step to the Planner or to the
\* Synthesizer: the agents run as plan steps are executor agents only.
C11_OnlyExecutorsRunAsSteps ==
    pc = "in_step" => agent.name \notin {"PlannerAgent", "SynthesizerAgent"}

\* C12: every step of every Plan that plan() returns, decoded or fallback,
\* names an agent of the catalog the Planner was constructed with.
C12_PlanNamesCatalogAgents ==
    \A i \in 1..Len(plan_log) :
        \A k \in 1..Len(plan_log[i].obj.steps) :
            /\ plan_log[i].obj.steps[k].agent_t = "str"
            /\ \E n \in 1..Len(PlanCatalog(variant)) :
                   plan_log[i].obj.steps[k].agent = PlanCatalog(variant)[n]

\* the Planner returned a Plan without steps
EmptyPlan ==
    /\ plan_obj.kind # "none"
    /\ plan_obj.plan_t \in {"list", "missing"}
    /\ plan_obj.steps = <<>>

\* with an empty Plan no executor agent runs, and the one synthesize call gets
\* the request and an empty output map
EmptyPlanOnlySynthesizes ==
    EmptyPlan =>
        /\ pc # "in_step"
        /\ step_calls = {}
        /\ outputs = <<>>
        /\ pc = "steps" => synth_calls = 0
        /\ pc \in {"in_synth", "returned"} =>
              /\ synth_calls = 1
              /\ agent.name = "SynthesizerAgent"
              /\ agent_input = SynthPrompt(user_input, <<>>)
        /\ pc = "returned" => result # NoneVal
        /\ pc = "raised" => exception.raised_by = "chat_completion"

\* C13: an empty Plan still reaches the Synthesizer: no executor agent is run,
\* synthesize is called exactly once with an empty output map, and
\* run_orchestration returns its result without raising (unless the
\* Synthesizer's own gateway call fails).
C13_EmptyPlanReachesSynthesizer ==
    /\ []EmptyPlanOnlySynthesizes
    /\ (EmptyPlan /\ pc = "steps") ~>
          (pc = "returned" \/ (pc = "raised" /\ exception.raised_by = "chat_completion"))

\* an orchestration with an empty Plan returned the Synthesizer's answer
C13_Witness ==
    /\ EmptyPlan
    /\ pc = "returned"
    /\ synth_calls = 1
    /\ agent.name = "SynthesizerAgent"

\* the gateway calls and tool invocations one step of the model makes
CallsMade ==
    IF rpc' = "first_call" THEN 0
    ELSE (gateway_calls' - gateway_calls) + (Len(invoked') - Len(invoked))

\* C14: plan steps execute strictly sequentially in list order: a call is made
\* for the step the loop is at only, the loop never goes back to an earlier
\* step, so every call of step i precedes the first call of step j > i, and
\* no two calls are made at once.
C14_StepsSequentialInListOrder ==
    [][/\ step_i' >= step_i
       /\ \A j \in step_calls' : j <= step_i'
       /\ step_calls' # step_calls =>
             (pc = "in_step" /\ step_calls' = step_calls \cup {step_i})
       /\ CallsMade \in {0, 1}]_vars

\* the second step of a plan is making calls after the first one made its own
C14_Witness ==
    /\ pc = "in_step"
    /\ step_i = 2
    /\ step_calls = {1, 2}
    /\ invoked # <<>>

\* C15: in every orchestration run that does not fail in transport the Planner
\* is called exactly once, before any executor step, and the Synthesizer exactly
\* once, after all plan steps completed or were skipped, with the original
\* request and the full output map.
C15_PlannerOnceSynthesizerOnce ==
    /\ pc \in {"steps", "in_step", "in_synth", "returned"} => Len(plan_log) = 1
    /\ pc \in {"start", "steps", "in_step"} => synth_calls = 0
    /\ pc \in {"in_synth", "returned"} =>
          /\ synth_calls = 1
          /\ step_i > Len(PlanList(plan_obj))
          /\ agent_input = SynthPrompt(plan_log[1].user_input, outputs)
    /\ pc = "raised" => exception.raised_by = "chat_completion"

\* C16: a transport/backend failure of a gateway call is fatal to the run: once
\* chat_completion has raised, the only step left is the exception leaving
\* run_orchestration; the call is not retried and no further gateway call or
\* tool invocation is made.
C16_GatewayFailureIsFatal ==
    [][exception.raised_by = "chat_completion" =>
          /\ pc' = "raised"
          /\ exception' = exception
          /\ gateway_calls' = gateway_calls
          /\ invoked' = invoked]_vars

(***************************************************************************)
(* Properties of the return paths of run.                                  *)
(***************************************************************************)
\* the step on which run stops because the loop limit is reached
ForcedStopStep == rpc = "ask_again" /\ rpc' = "forced_stop"

\* the limit test stops the run, and the last reply's tool calls are neither
\* executed nor appended to the channel
StopsWithoutToolCalls ==
    /\ (rpc = "ask_again" /\ loops >= max_tool_loops) => rpc' \in {"forced_stop", "raised"}
    /\ ForcedStopStep =>
          /\ invoked' = invoked
          /\ execution_log' = execution_log
          /\ \A k \in 1..Len(memory') :
                k > Len(memory) => memory'[k].tool_calls = <<>> /\ memory'[k].role = "assistant"
    /\ rpc = "forced_stop" => rpc' = "forced_stop" \/ pc' # pc

\* C17 as stated: on reaching the limit run stops and returns the content of
\* the most recent reply, whose tool calls are neither executed nor appended.
C17_ForcedStopReturnsReplyContent ==
    [][/\ StopsWithoutToolCalls
       /\ ForcedStopStep => result' = message'.content]_vars

\* C17 amended: on reaching the limit run stops and returns the most recent
\* reply's content stripped of surrounding whitespace, appending it as an
\* assistant turn when it is not empty; agent_step returns no value and appends
\* the content as it is; the reply's tool calls are neither executed nor
\* appended.
C17_ForcedStopReturnsStrippedContent ==
    [][/\ StopsWithoutToolCalls
       /\ ForcedStopStep =>
             LET c == IF variant = "raw" THEN message'.content
                      ELSE Strip(message'.content)
             IN /\ result' = IF variant = "raw" THEN NoneVal ELSE c
                /\ memory' = IF c = <<>> THEN memory
                             ELSE Append(memory, Turn("assistant", c, <<>>, <<>>, ""))]_vars

\* run stopped at the limit on a reply that carries both content and tool calls
C17_Witness ==
    /\ rpc = "forced_stop"
    /\ variant # "raw"
    /\ message.tool_calls # <<>>
    /\ result = <<"o", "k">>
    /\ memory[Len(memory)].content = <<"o", "k">>

\* the step on which run returns because the reply carries no tool calls
DoneStep == rpc = "loop" /\ rpc' = "done"

\* C18 as stated: on a reply without tool calls run appends an assistant turn
\* exactly when the reply's content is not empty, and returns that content; the
\* Synthesizer so returns an empty reply as it is.
C18_FinalReplyReturnedAsIs ==
    [][DoneStep =>
          /\ result' = message.content
          /\ memory' = IF message.content = <<>> THEN memory
                       ELSE Append(memory, Turn("assistant", message.content,
                                                <<>>, <<>>, ""))]_vars

\* C18 amended: on a reply without tool calls run strips the surrounding
\* whitespace of the content, appends an assistant turn exactly when the
\* stripped content is not empty, and returns the stripped content (the empty
\* string for an empty or whitespace-only reply); synthesize returns what run
\* returns.
C18_FinalReplyReturnedStripped ==
    [][/\ DoneStep =>
             /\ message.tool_calls = <<>>
             /\ result' = Strip(message.content)
             /\ memory' = IF Strip(message.content) = <<>> THEN memory
                          ELSE Append(memory, Turn("assistant", Strip(message.content),
                                                   <<>>, <<>>, ""))
       /\ (pc = "in_synth" /\ pc' = "returned") => result' = result]_vars

\* the Synthesizer returned "" for a whitespace-only reply and appended no turn
C18_Witness ==
    /\ pc = "returned"
    /\ rpc = "done"
    /\ message.content = <<" ">>
    /\ result = <<>>
    /\ memory[Len(memory)].role = "user"

(***************************************************************************)
(* Properties of the output map and of the channel.                        *)
(***************************************************************************)
\* the agent names that have an entry in an output map
OutputNames(d) == { d[i].agent : i \in 1..Len(d) }

\* the step on which a plan step's result is stored
StoreStep == pc = "in_step" /\ pc' = "steps"

\* C19: the output map holds for each executed agent name the result of the
\* last executed step naming it, and exactly one entry per distinct executed
\* agent name: storing a result sets the entry of that name, adds the name when
\* it is new, and leaves every other entry alone.
C19_LaterResultOverwrites ==
    [][IF StoreStep
       THEN /\ \E i \in 1..Len(outputs') :
                  outputs'[i] = [agent |-> agent.name, output |-> result]
            /\ \A i, j \in 1..Len(outputs') :
                  outputs'[i].agent = outputs'[j].agent => i = j
            /\ OutputNames(outputs') = OutputNames(outputs) \cup {agent.name}
            /\ \A i \in 1..Len(outputs) :
                  outputs[i].agent # agent.name =>
                      \E j \in 1..Len(outputs') : outputs'[j] = outputs[i]
       ELSE outputs' = outputs]_vars

\* two executed steps named the same agent and the map holds one entry, the
\* result of the second
C19_Witness ==
    /\ pc = "steps"
    /\ step_i = 3
    /\ plan_obj.steps[1].agent = plan_obj.steps[2].agent
    /\ step_calls = {1, 2}
    /\ Len(outputs) = 1
    /\ outputs[1] = [agent |-> plan_obj.steps[2].agent, output |-> result]

\* a is a prefix of b
IsPrefix(a, b) == Len(a) <= Len(b) /\ SubSeq(b, 1, Len(a)) = a

\* C20: the channel is append-only: across agent constructions on the channel
\* and run / agent_step calls, the channel before each step is a prefix of
\* the channel after it; no turn is removed, reordered or rewritten.
C20_ChannelAppendOnly == [][IsPrefix(memory, memory')]_vars

\* a second run has ended on a channel that holds the turns of the first one
C20_Witness ==
    /\ rpc \in {"done", "forced_stop"}
    /\ Cardinality({k \in 1..Len(memory) : memory[k].role = "user"}) = 2
    /\ \E k \in 1..Len(memory) : memory[k].role = "tool"
    /\ memory[Len(memory)].role = "assistant"

\* the positions of the system turns of a channel
SystemTurns(h) == {k \in 1..Len(h) : h[k].role = "system"}

\* C21: in every reachable state of a channel there is exactly one system turn
\* and it precedes all other turns, after any sequence of agent constructions
\* and runs.
C21_OneSystemTurnFirst == SystemTurns(memory) = {1}

\* C22: an agent with tools disabled (the Synthesizer, the Planner driven
\* through run) never invokes a tool function, whatever the model replies.
C22_ToolsDisabledNeverInvokes ==
    (rpc # "idle" /\ ~agent.tools_enabled) => invoked = <<>>

\* the tool turns of a channel
ToolTurns(h) == {k \in 1..Len(h) : h[k].role = "tool"}

\* the channel ends with the assistant turn of the last reply's tool calls,
\* verbatim and with null content, and one tool turn per call in call order
RoundRecorded ==
    LET n == Len(message.tool_calls)
        a == Len(memory) - n
    IN /\ a >= 1
       /\ memory[a].role = "assistant"
       /\ memory[a].content = NoneVal
       /\ memory[a].tool_calls = message.tool_calls
       /\ \A k \in 1..n :
             /\ memory[a + k].role = "tool"
             /\ memory[a + k].name = message.tool_calls[k].name

\* the execution log ends with one entry per call of the round, in call order
RoundLogged ==
    LET n == Len(message.tool_calls)
        b == Len(execution_log) - n
    IN /\ b >= 0
       /\ Len(execution_log) = Cardinality(ToolTurns(memory))
       /\ \A k \in 1..n : execution_log[b + k].name = message.tool_calls[k].name

\* C23: for a tool-calls reply with n calls run appends one assistant turn
\* carrying the tool_calls verbatim with null content, then exactly n tool
\* turns named in call order, and exactly n execution-log entries in that order.
C23_RoundAppendsTurnsAndLogEntries ==
    (rpc = "ask_again" /\ variant # "raw") => (RoundRecorded /\ RoundLogged)

(***************************************************************************)
(* Properties of the tools.                                                *)
(***************************************************************************)
\* the text carries an explicit cannot-divide-by-zero message
SaysCannotDivide(text) ==
    Contains(Lower(text), <<"c","a","n","n","o","t"," ","d","i","v","i","d","e"," ",
                            "b","y"," ","z","e","r","o">>)

\* the values that are equal to zero in Python
Zeros == {Value("int", 0), Value("float", 0)}

\* the tool call the loop is at asks to divide by zero
AtDivisionByZero ==
    /\ rpc = "tools"
    /\ message.tool_calls[tc_i].name = "divide_numbers"
    /\ \E a \in Dividends, z \in Zeros :
          message.tool_calls[tc_i].arguments.body = ArgumentsText(a, z)

\* C24: divide_numbers(a, b) with b == 0 returns, for every a, a string with an
\* explicit cannot-divide-by-zero message and never raises; routed through the
\* executor loop that string is the ToolResult of the call.
C24_DivideByZeroIsMessage ==
    [][/\ \A a \in Dividends, z \in Zeros :
             /\ divide_numbers(a, z).outcome = "returns"
             /\ SaysCannotDivide(divide_numbers(a, z).text)
       /\ AtDivisionByZero =>
             /\ rpc' # "raised"
             /\ Len(memory') = Len(memory) + 1
             /\ memory'[Len(memory')].role = "tool"
             /\ memory'[Len(memory')].name = "divide_numbers"
             /\ SaysCannotDivide(memory'[Len(memory')].content)
             /\ SaysCannotDivide(execution_log'[Len(execution_log')].result)]_vars

\* a division of a non-number by 0.0 was answered with the message
C24_Witness ==
    /\ pc = "math"
    /\ rpc = "ask_again"
    /\ message.tool_calls[1].arguments.body
          = ArgumentsText(Value("str", 0), Value("float", 0))
    /\ memory[Len(memory)].content = CannotDivide

(***************************************************************************)
(* Properties of the plans.                                                *)
(***************************************************************************)
\* the request "What's the weather in Hanoi?"
HanoiRequest == UserInputs[4]

\* the Plan's only step names WeatherAgent
OnlyWeatherStep(obj) ==
    /\ Len(obj.steps) = 1
    /\ obj.steps[1].agent_t = "str"
    /\ obj.steps[1].agent = "WeatherAgent"

\* C25 as stated: a Planner with catalog [WeatherAgent, LocationAgent] given
\* "What's the weather in Hanoi?" produces a Plan whose only step names
\* WeatherAgent.
C25_HanoiPlanIsWeatherOnly ==
    \A i \in 1..Len(plan_log) :
        (variant = "orchestration" /\ plan_log[i].user_input = HanoiRequest)
        => OnlyWeatherStep(plan_log[i].obj)

\* C25 amended: for that catalog and request the Plan is the one the model's
\* reply states when the reply decodes, and when it does not decode the
\* fallback Plan's only step names WeatherAgent, with the request as input.
C25_HanoiFallbackIsWeatherOnly ==
    \A i \in 1..Len(plan_log) :
        (variant = "orchestration" /\ plan_log[i].user_input = HanoiRequest) =>
            IF JsonExtractable(plan_log[i].content)
            THEN /\ plan_log[i].obj.kind = "decoded"
                 /\ plan_log[i].obj.steps = plan_log[i].content.steps
            ELSE /\ plan_log[i].obj.kind = "fallback"
                 /\ OnlyWeatherStep(plan_log[i].obj)
                 /\ plan_log[i].obj.steps[1].input = HanoiRequest

\* the Hanoi request was planned by the fallback
C25_Witness ==
    /\ variant = "orchestration"
    /\ \E i \in 1..Len(plan_log) :
          /\ plan_log[i].user_input = HanoiRequest
          /\ plan_log[i].obj.kind = "fallback"
          /\ plan_log[i].obj.steps # <<>>

(***************************************************************************)
(* Properties of tool dispatch and of the steps' channels.                 *)
(***************************************************************************)
\* C26: an Executor Agent invokes only tools of its own declared subset
\* (my_tool_specs): a call naming a registry tool outside it is not executed.
C26_InvokesOwnToolsOnly ==
    agent.tools_enabled =>
        \A k \in 1..Len(invoked) : invoked[k].name \in agent.my_tool_specs

\* the tool turns answering the tool-calls turn at p carry the ids recorded in
\* that turn, pairwise distinct
IdsMatchAt(h, p) ==
    LET calls == h[p].tool_calls
        n == Len(calls)
    IN \A k \in 1..n :
          p + k <= Len(h) =>
              /\ h[p + k].tool_call_id # <<>>
              /\ h[p + k].tool_call_id = calls[k].id
              /\ \A j \in 1..n :
                    (j # k /\ p + j <= Len(h)) =>
                        h[p + j].tool_call_id # h[p + k].tool_call_id

\* C27: every tool turn has the tool_call_id of a ToolCall of the immediately
\* preceding assistant tool_calls turn, the provided id or else a synthesized id
\* that is also recorded for the call in that turn, and the ids of the tool
\* turns of one round are pairwise distinct.
C27_ToolTurnIdsMatchAssistantTurn ==
    \A p \in ToolCallTurns(memory) : IdsMatchAt(memory, p)

\* the user turns of a channel
UserTurns(h) == {k \in 1..Len(h) : h[k].role = "user"}

\* C28: for each executed plan step run is called exactly once: the step
\* appends one user turn to the agent's channel, makes at most max_iterations
\* + 1 gateway calls, and no failure inside run makes the step run a second
\* time on the same channel.
C28_StepRunsOnce ==
    pc = "in_step" =>
        /\ ~retried
        /\ Cardinality(UserTurns(memory)) = 1
        /\ gateway_calls <= max_tool_loops + 1

\* C29: each executed plan step runs on a fresh agent with a private channel:
\* the first gateway request of a step carries that agent's system turn and
\* the step's user turn only, and no turn of another step (an earlier step
\* naming the same agent included) or of the Planner.
C29_StepChannelIsPrivate ==
    (pc = "in_step" /\ rpc = "first_call" /\ ~retried) =>
        memory = << Turn("system", SystemPrompt(agent.name), <<>>, <<>>, ""),
                    Turn("user", agent_input, <<>>, <<>>, "") >>

\* the second of two steps naming the same agent is about to make its first
\* request, after the first one made calls of its own
C29_Witness ==
    /\ pc = "in_step"
    /\ rpc = "first_call"
    /\ ~retried
    /\ step_i = 2
    /\ plan_obj.steps[1].agent = plan_obj.steps[2].agent
    /\ step_calls = {1}
    /\ outputs # <<>>
    /\ Len(memory) = 2

\* some keyword of the set occurs in the lowercased request
KeywordOccurs(keys, request) == \E k \in keys : Contains(Lower(request), k)

\* C30: the fallback Plan has notes "fallback plan" and a step for an agent
\* exactly when one of the agent's keywords occurs in the lowercased request;
\* each step's input is the unmodified user_input, there is at most one step
\* per agent, and the steps are in catalog order (WeatherAgent then
\* LocationAgent, NewsAgent then MathAgent).
C30_FallbackPlanShape ==
    \A i \in 1..Len(plan_log) :
        plan_log[i].obj.kind = "fallback" =>
            LET obj == plan_log[i].obj
                u == plan_log[i].user_input
                first == PlanCatalog(variant)[1]
                second == PlanCatalog(variant)[2]
                names == [k \in 1..Len(obj.steps) |-> obj.steps[k].agent]
            IN /\ obj.notes = "fallback plan"
               /\ obj.plan_t = "list"
               /\ \A k \in 1..Len(obj.steps) :
                     /\ obj.steps[k].shape = "dict"
                     /\ obj.steps[k].agent_t = "str"
                     /\ obj.steps[k].input_t = "str"
                     /\ obj.steps[k].input = u
               /\ names = (IF KeywordOccurs(FirstKeywords(variant), u)
                           THEN <<first>> ELSE <<>>)
                          \o (IF KeywordOccurs(SecondKeywords(variant), u)
                              THEN <<second>> ELSE <<>>)

\* a fallback Plan with both agents, for a request that spells a keyword with
\* a capital letter
C30_Witness ==
    \E i \in 1..Len(plan_log) :
        /\ plan_log[i].obj.kind = "fallback"
        /\ Len(plan_log[i].obj.steps) = 2
        /\ plan_log[i].user_input \in {UserInputs[1], UserInputs[3]}

(***************************************************************************)
(* Properties of the requests and of the trace.                            *)
(***************************************************************************)
\* the body carries no tool declarations
NoToolDeclarations(body) ==
    /\ "tools" \notin body.keys
    /\ "tool_choice" \notin body.keys
    /\ body.tools = {}

(* C31: a call of PlannerAgent.plan appends exactly one turn to the         *)
(* planner's channel, the user turn holding the request (so no assistant    *)
(* turn), issues exactly one model-gateway request, whose body declares no  *)
(* tools, and invokes no tool, whatever the reply holds and also when the   *)
(* request fails.                                                           *)
C31_PlanFrame ==
    [][pc = "planner" =>
         /\ Len(memory') = Len(memory) + 1
         /\ SubSeq(memory', 1, Len(memory)) = memory
         /\ memory'[Len(memory')].role = "user"
         /\ memory'[Len(memory')].content = user_input'
         /\ memory'[Len(memory')].tool_calls = <<>>
         /\ gateway_calls' = gateway_calls + 1
         /\ NoToolDeclarations(payload')
         /\ invoked' = invoked]_vars

\* plan() has returned on a reply that carries tool_calls
C31_Witness ==
    /\ pc = "planner"
    /\ plan_log # <<>>
    /\ message.tool_calls # <<>>
    /\ invoked = <<>>
    /\ gateway_calls = Len(plan_log)
    /\ Cardinality({k \in 1..Len(memory) : memory[k].role = "user"}) = Len(plan_log)
    /\ \A k \in 1..Len(memory) : memory[k].role # "assistant"

(* C32: after a request of the Planner, which passes a response-schema      *)
(* constraint and omits the tools, the body posted carries a                *)
(* response_format field encoding that constraint and carries neither tools *)
(* nor tool_choice.                                                         *)
C32_BodyCarriesConstraint ==
    (agent.name = "PlannerAgent" /\ payload # NoPayload) =>
        /\ "response_format" \in payload.keys
        /\ payload.response_format = PlanConstraint(variant)
        /\ NoToolDeclarations(payload)

\* the plan step is one run_orchestration runs an agent for
Executed(v, step) ==
    step.shape = "dict" /\ step.agent_t = "str" /\ step.agent \in AGENT_REGISTRY(v)

\* the distinct agent names of the executed steps, in order of first execution
RECURSIVE FirstExecuted(_, _, _)
FirstExecuted(v, steps, seen) ==
    IF steps = <<>> THEN <<>>
    ELSE LET new == Executed(v, Head(steps)) /\ Head(steps).agent \notin seen
         IN (IF new THEN <<Head(steps).agent>> ELSE <<>>)
            \o FirstExecuted(v, Tail(steps),
                             IF new THEN seen \cup {Head(steps).agent} ELSE seen)

\* the output the map holds for a name
OutputOf(d, name) == d[CHOOSE i \in 1..Len(d) : d[i].agent = name].output

\* one "- agent: output" line per name
RECURSIVE LinesFor(_, _)
LinesFor(names, d) ==
    IF names = <<>> THEN <<>>
    ELSE <<"\n", "- ", Head(names), ": ">> \o OutputOf(d, Head(names))
         \o LinesFor(Tail(names), d)

(* C33: while the Synthesizer runs, its channel holds a single user turn,   *)
(* made of the original request, then one "agent: output" line per entry of *)
(* the output map, the entries being the distinct names of the executed     *)
(* steps in order of first execution, then the compose instruction; and     *)
(* the requests it has sent declare no tools.                               *)
C33_SynthesizerPrompt ==
    pc = "in_synth" =>
        LET names == FirstExecuted(variant, PlanList(plan_obj), {})
        IN /\ Cardinality(UserTurns(memory)) = 1
           /\ memory[2].role = "user"
           /\ [k \in 1..Len(outputs) |-> outputs[k].agent] = names
           /\ memory[2].content =
                 <<"User request: ">> \o user_input \o <<"\n", "Agent outputs:">>
                 \o LinesFor(names, outputs)
                 \o <<"\n", "Compose a concise final answer for the user.">>
           /\ gateway_calls > 0 => NoToolDeclarations(payload)

\* the Synthesizer has sent a request for a map with two entries
C33_Witness ==
    /\ pc = "in_synth"
    /\ gateway_calls > 0
    /\ Len(outputs) = 2
    /\ outputs[1].agent # outputs[2].agent
    /\ payload # NoPayload

\* the plan step the for loop is at
CurrentStep == PlanList(plan_obj)[step_i]

(* C34: while the agent of a plan step runs, the input it was run with, and *)
(* the user turn of its channel, is the step's input when that is present   *)
(* and not empty, and the original user_input otherwise.                    *)
C34_StepInputOrRequest ==
    pc = "in_step" =>
        LET given == CurrentStep.input_t = "str" /\ CurrentStep.input # <<>>
            expected == IF given THEN CurrentStep.input ELSE user_input
        IN /\ agent_input = expected
           /\ memory[2].role = "user"
           /\ memory[2].content = expected

\* a step whose input is empty is being run on the original request, after a
\* step that was run on its own input
C34_Witness ==
    /\ pc = "in_step"
    /\ gateway_calls > 0
    /\ step_i = 2
    /\ CurrentStep.input_t = "str"
    /\ CurrentStep.input = <<>>
    /\ agent_input = user_input
    /\ PlanList(plan_obj)[1].input = StepText
    /\ Len(outputs) = 1

\* a step that has no input key is being run on the original request
C34_WitnessMissing ==
    /\ pc = "in_step"
    /\ CurrentStep.input_t = "missing"
    /\ agent_input = user_input

\* the position in the channel of its k-th tool turn
KthToolTurn(h, k) ==
    CHOOSE p \in ToolTurns(h) : Cardinality({q \in ToolTurns(h) : q <= p}) = k

(* C35: in the scratchpad variant, in every state of any sequence of runs   *)
(* on an agent that owns its channel (the channel starts with the one       *)
(* system turn of that agent), the execution log has as many entries as the *)
(* channel has tool turns, and the k-th entry has the tool name and the     *)
(* result string of the k-th tool turn.                                     *)
C35_LogMatchesToolTurns ==
    (variant = "scratchpad" /\ SystemTurns(memory) = {1}) =>
        /\ Len(execution_log) = Cardinality(ToolTurns(memory))
        /\ \A k \in 1..Len(execution_log) :
              /\ execution_log[k].name = memory[KthToolTurn(memory, k)].name
              /\ execution_log[k].result = memory[KthToolTurn(memory, k)].content

\* the second run on a private channel has returned after two tool calls
C35_Witness ==
    /\ variant = "scratchpad"
    /\ SystemTurns(memory) = {1}
    /\ rpc \in {"done", "forced_stop"}
    /\ Cardinality(UserTurns(memory)) = 2
    /\ Len(execution_log) = 2
    /\ execution_log[1].name # execution_log[2].name

\* the indices of the plan steps an agent is run for, in plan order
RECURSIVE ExecutedSteps(_, _, _)
ExecutedSteps(v, plan, i) ==
    IF i > Len(plan) THEN <<>>
    ELSE (IF Executed(v, plan[i]) THEN <<i>> ELSE <<>>) \o ExecutedSteps(v, plan, i + 1)

\* agent_logs has one entry per executed step, in execution order
OneLogPerExecutedStep ==
    LET plan == PlanList(plan_obj)
        ex == ExecutedSteps(variant, plan, 1)
    IN /\ Len(agent_logs) = Len(ex)
       /\ \A k \in 1..Len(ex) :
             /\ agent_logs[k].agent = plan[ex[k]].agent
             /\ agent_logs[k].tool_calls.owner = ex[k]

\* the records of a list: an empty list has none, whoever owns it
Records(list) == IF list.any THEN list ELSE NoLogList

\* the tool-call records plan step i produced
ProducedBy(logs, i) ==
    IF \E k \in 1..Len(logs) : logs[k].tool_calls.owner = i
    THEN Records(logs[CHOOSE k \in 1..Len(logs) : logs[k].tool_calls.owner = i].tool_calls)
    ELSE NoLogList

(* C36: when run_orchestration of the scratchpad variant has rendered its   *)
(* trace, agent_logs has one entry per executed step in execution order,    *)
(* and the tool-call records drawn under each plan step are the records     *)
(* that step produced (none for a skipped step).                            *)
C36_TraceDrawsOwnRecords ==
    (pc = "returned" /\ variant = "scratchpad") =>
        /\ OneLogPerExecutedStep
        /\ Len(mermaid.nodes) = Len(PlanList(plan_obj))
        /\ \A i \in 1..Len(mermaid.nodes) :
              Records(mermaid.nodes[i].calls) = ProducedBy(agent_logs, i)

\* the thought a turn of the channel goes with
ThoughtFor(turn) ==
    CASE turn.role = "user" -> "initial_analysis"
      [] turn.role = "tool" -> "tool_execution"
      [] turn.role = "assistant" /\ turn.tool_calls # <<>> -> "tool_selection"
      [] OTHER -> "final_response"

\* the thought types of a scratchpad, in order
ThoughtTypes(thoughts) == [k \in 1..Len(thoughts) |-> thoughts[k].thought_type]

\* the thoughts follow the turns the run has appended after the system turn
ThoughtsFollowTurns ==
    ThoughtTypes(scratchpad) = [k \in 1..(Len(memory) - 1) |-> ThoughtFor(memory[k + 1])]

\* run has returned content that is not empty
ReturnedContent == RunReturned /\ result # <<>>

(* C37: in a run of a scratchpad-variant agent, the thoughts are the        *)
(* initial_analysis, then for each tool round one tool_selection followed   *)
(* by one tool_execution per call; and once run has returned content that   *)
(* is not empty, on either terminal path, the last thought is a             *)
(* final_response holding that content.                                     *)
C37_ScratchpadEndsWithFinalResponse ==
    variant = "scratchpad" =>
        /\ ThoughtsFollowTurns
        /\ ReturnedContent =>
              /\ scratchpad[Len(scratchpad)].thought_type = "final_response"
              /\ scratchpad[Len(scratchpad)].content = result

====
